---- MODULE Spec2Model ----
(***************************************************************************)
(* Model of assign_gvi_to_points.py: the Green View Index of one image     *)
(* (get_gvi_score) and the batch command that scores a directory of images *)
(* and joins the scores onto a point dataset (main).                       *)
(*                                                                         *)
(* Real numbers are kept exact.  A normalised intensity v/255 is kept as   *)
(* its numerator v, an Excess Green value as the integer 2*g - r - b in    *)
(* units of 1/255, a threshold in units of 1/(255 * 2 * nbins), and a      *)
(* score as the fraction num/den.  The images of the model take their      *)
(* intensities in {0, 255}, for which the float32 arithmetic of the code   *)
(* is exact as well.                                                       *)
(***************************************************************************)
EXTENDS Integers, Sequences, FiniteSets

VARIABLES
    image,      \* get_gvi_score: what cv2.imread finds at image_path
    threshold,  \* get_gvi_score: the local threshold of the first call
    score,      \* get_gvi_score: outcome of the first call on image
    again,      \* get_gvi_score: outcome of a second call on image
    dirExists,  \* file system: os.path.exists(image_directory)
    listError,  \* file system: the exception os.listdir(image_directory) raises, or NoError
    listing,    \* file system: what os.listdir(image_directory) returns
    files,      \* file system: what cv2.imread finds for each listed name
    readError,  \* file system: the exception gpd.read_file(interim_data) raises, or NoError
    interim,    \* file system: the features gpd.read_file(interim_data) returns
    pc,         \* main: position in the function body
    error,      \* main: the exception that ended the run, or NoError
    df,         \* main: the data frame of scores
    gdf,        \* main: the merged frame
    calls,      \* main: the file names get_gvi_score was called with, in order
    output,     \* file system: contents of output_file, or NoFile
    writes      \* file system: number of times output_file was written

gviVars == <<image, threshold, score, again>>
envVars == <<dirExists, listError, listing, files, readError, interim>>
mainVars == <<pc, error, df, gdf, calls, output, writes>>
vars == <<image, threshold, score, again,
          dirExists, listError, listing, files, readError, interim,
          pc, error, df, gdf, calls, output, writes>>

\* Python's None (cv2.imread on a file it cannot decode), pandas' NaN (a cell
\* the left join leaves empty), no exception, and no file at output_file.
None == [none |-> TRUE]
NaN == [nan |-> TRUE]
NoError == "none"
NoFile == [exists |-> FALSE]

\* ------------------------------------------------------------------ bounds
MaxPixels == 4
MaxFiles == 2
MaxPoints == 2

\* ------------------------------------------------------- program constants
MaxIntensity == 255
nbins == 256
ExtensionLength == 5

\* ------------------------------------------------------------------ images
\* A decoded image: shape <<rows, cols>> and the pixels in row-major order,
\* each pixel <<b, g, r>> as cv2.imread delivers it.
Black == <<0, 0, 0>>
White == <<MaxIntensity, MaxIntensity, MaxIntensity>>
Red == <<0, 0, MaxIntensity>>
Green == <<0, MaxIntensity, 0>>
Palette == {Black, White, Red, Green}

Shapes == {s \in (1..MaxPixels) \X (1..MaxPixels) : s[1] * s[2] <= MaxPixels}
Images == UNION {[shape : {s}, data : [1..(s[1] * s[2]) -> Palette]] : s \in Shapes}

Uniform(shape, px) == [shape |-> shape, data |-> [i \in 1..(shape[1] * shape[2]) |-> px]]

\* --------------------------------------------------------- get_gvi_score
SetMin(S) == CHOOSE x \in S : \A y \in S : x <= y
SetMax(S) == CHOOSE x \in S : \A y \in S : x >= y

\* cv2.imread: the decoded image, or None when the file cannot be decoded.
imread(file) == file

\* cv2.cvtColor(original_image, cv2.COLOR_BGR2RGB): raises on None.
cvtColor(img) ==
    [shape |-> img.shape,
     data |-> [i \in DOMAIN img.data |-> <<img.data[i][3], img.data[i][2], img.data[i][1]>>]]

\* r, g, b = cv2.split(rgb / 255); exg = 2 * g - r - b, in units of 1/MaxIntensity.
ExG(rgb) == [i \in DOMAIN rgb.data |-> 2 * rgb.data[i][2] - rgb.data[i][1] - rgb.data[i][3]]

\* numpy.histogram over nbins equal bins of [lo, hi]: the bin of value v; the
\* right edge of the last bin is closed.
BinIndex(v, lo, hi) ==
    LET k == ((v - lo) * nbins) \div (hi - lo)
    IN  IF k >= nbins THEN nbins - 1 ELSE k

\* The bin of every pixel; counts[k] is the number of pixels whose bin is k.
Bins(exg, lo, hi) == [i \in DOMAIN exg |-> BinIndex(exg[i], lo, hi)]

\* bin_centers[k] = lo + (2k + 1) * h with h = (hi - lo) / (2 * nbins), here
\* multiplied by 2 * nbins.
BinCenter(k, lo, hi) == 2 * nbins * lo + (2 * k + 1) * (hi - lo)

\* cumsum(counts * bin_centers)[k], as an offset from lo in units of h: the sum
\* of 2 * bins[i] + 1 over the pixels 1..n whose bin is at most k.
RECURSIVE CenterSum(_, _, _)
CenterSum(bins, k, n) ==
    IF n = 0 THEN 0
    ELSE (IF bins[n] <= k THEN 2 * bins[n] + 1 ELSE 0) + CenterSum(bins, k, n - 1)

\* weight1 = cumsum(counts)
weight1(bins, k) == Cardinality({i \in DOMAIN bins : bins[i] <= k})

\* variance12[k] = weight1[k] * weight2[k+1] * (mean1[k] - mean2[k+1])^2 for
\* k in 0..nbins-2, where mean1 = cumsum(counts * bin_centers) / weight1 and
\* weight2, mean2 are the same sums taken from the right: weight2[k+1] is the
\* total less weight1[k], and likewise the centre sum.  With t1 and t2 the
\* centre sums of the two classes, mean1[k] - mean2[k+1] = h * (t1/w1 - t2/w2),
\* so variance12[k] is h^2 * (t1*w2 - t2*w1)^2 / (w1*w2): kept as the fraction
\* num/den in units of h^2, which is positive and the same for every k.
variance12(bins) ==
    LET n == Len(bins)
        t == CenterSum(bins, nbins - 1, n)
    IN  [k \in 0..(nbins - 2) |->
            LET w1 == weight1(bins, k)
                t1 == CenterSum(bins, k, n)
                d == t1 * (n - w1) - (t - t1) * w1
            IN  [num |-> d * d, den |-> w1 * (n - w1)]]

\* np.argmax over v[a..b]: the first index of the largest value.
RECURSIVE argmax(_, _, _)
argmax(v, a, b) ==
    IF a = b THEN a
    ELSE LET m == (a + b) \div 2
             l == argmax(v, a, m)
             r == argmax(v, m + 1, b)
         IN  IF v[r].num * v[l].den > v[l].num * v[r].den THEN r ELSE l

\* Mutant: np.any in place of np.all.
AnyEqualFirst(exg) == \E i \in DOMAIN exg : exg[i] = exg[1]

\* np.all(image == first_pixel)
AllEqualFirst(exg) == \A i \in DOMAIN exg : exg[i] = exg[1]

\* The centre of bin idx of the histogram of exg, multiplied by 2 * nbins.
otsu_bin_centre(exg) ==
    LET lo == SetMin({exg[i] : i \in DOMAIN exg})
        hi == SetMax({exg[i] : i \in DOMAIN exg})
        idx == argmax(variance12(Bins(exg, lo, hi)), 0, nbins - 2)
    IN  BinCenter(idx, lo, hi)

\* Mutant: no shortcut for an image of a single value.  numpy.histogram then
\* widens the range to [v - 1/2, v + 1/2], variance12 is NaN throughout, argmax
\* is 0 and the threshold is the centre of the first bin, below v.
threshold_otsu_no_shortcut(exg) ==
    IF AllEqualFirst(exg) THEN 2 * nbins * exg[1] - MaxIntensity * (nbins - 1)
    ELSE otsu_bin_centre(exg)

\* skimage.filters.threshold_otsu(exg), multiplied by 2 * nbins: an image of a
\* single value returns that value (scikit-image 0.16 and later), any other
\* the centre of bin idx.
threshold_otsu(exg) ==
    IF AllEqualFirst(exg) THEN 2 * nbins * exg[1]
    ELSE otsu_bin_centre(exg)

\* Mutant: a pixel equal to the threshold counts as green.
GreenPixelsInclusive(exg, t) ==
    Cardinality({i \in DOMAIN exg : 2 * nbins * exg[i] >= t})

\* (exg > threshold).sum()
GreenPixels(exg, t) ==
    Cardinality({i \in DOMAIN exg : 2 * nbins * exg[i] > t})

\* Mutant: the number of rows in place of the number of pixels.
TotalPixelsRows(img) == img.shape[1]

\* original_image.shape[0] * original_image.shape[1]
TotalPixels(img) == img.shape[1] * img.shape[2]

\* The locals of get_gvi_score(image_path) when it returns, or the exception
\* raised: cv2.cvtColor raises cv2.error on the None of an undecodable file.
\* gvi_score = (green_pixels / total_pixels) * 100 is the fraction num/den.
gvi_frame(file) ==
    LET original_image == imread(file)
    IN  IF original_image = None
        THEN [raised |-> "cv2.error"]
        ELSE LET exg == ExG(cvtColor(original_image))
                 t == threshold_otsu(exg)
             IN  [threshold |-> t,
                  gvi_score |-> [num |-> GreenPixels(exg, t) * 100,
                                 den |-> TotalPixels(original_image)]]

Raised(r) == "raised" \in DOMAIN r

\* The outcome of a call: the value returned, or the exception raised.
Outcome(frame) == IF Raised(frame) THEN frame ELSE frame.gvi_score

get_gvi_score(file) == Outcome(gvi_frame(file))

\* ------------------------------------------------ specification SpecGvi
\* One image, scored twice.
NotCalled == [called |-> FALSE]

MainIdle ==
    /\ dirExists = FALSE /\ listError = NoError /\ listing = <<>> /\ files = <<>>
    /\ readError = NoError /\ interim = <<>>
    /\ pc = "idle" /\ error = NoError /\ df = <<>> /\ gdf = <<>>
    /\ calls = <<>> /\ output = NoFile /\ writes = 0

InitGvi ==
    /\ image \in Images \cup {None}
    /\ threshold = NotCalled
    /\ score = NotCalled
    /\ again = NotCalled
    /\ MainIdle

Call ==
    /\ score = NotCalled
    /\ \E frame \in {gvi_frame(image)} :
           /\ score' = Outcome(frame)
           /\ threshold' = IF Raised(frame) THEN frame ELSE [value |-> frame.threshold]
    /\ UNCHANGED <<image, again, envVars, mainVars>>

CallAgain ==
    /\ score # NotCalled
    /\ again = NotCalled
    /\ again' = get_gvi_score(image)
    /\ UNCHANGED <<image, threshold, score, envVars, mainVars>>

NextGvi == Call \/ CallAgain

SpecGvi == InitGvi /\ [][NextGvi]_vars

\* ------------------------------------------------------------------- main
\* File names and identifiers are sequences of characters.
JpegExt == <<".", "j", "p", "e", "g">>
Names == {<<"a">> \o JpegExt,
          <<"a", ".", "t", "i", "f", "f">>,
          <<"c", ".", "p", "n", "g">>}
Ids == {<<"a">>, <<"b">>}
GeometryTypes == {"Point", "LineString"}

\* What a listed file decodes to: nothing, a uniform image, a two-colour image.
Contents == {None,
             Uniform(<<1, 1>>, Green),
             [shape |-> <<1, 2>>, data |-> <<Green, Red>>]}

Range(f) == {f[i] : i \in DOMAIN f}
Listings ==
    {l \in UNION {[1..n -> Names] : n \in 0..MaxFiles} :
        \A i, j \in DOMAIN l : l[i] = l[j] => i = j}
Interims ==
    UNION {[1..n -> [image_id : Ids, geometry : GeometryTypes]] : n \in 0..MaxPoints}

\* sub in s, for Python strings
Contains(s, sub) ==
    \E i \in 1..(Len(s) - Len(sub) + 1) : SubSeq(s, i, i + Len(sub) - 1) = sub

\* "\t".join(names)
RECURSIVE JoinTab(_)
JoinTab(names) ==
    IF names = <<>> THEN <<>>
    ELSE IF Len(names) = 1 THEN names[1]
    ELSE names[1] \o <<"\t">> \o JoinTab(Tail(names))

\* ".jpeg" in "\t".join(os.listdir(os.path.join(image_directory)))
HasJpegContents(names) == Contains(JoinTab(names), JpegExt)

\* Mutant: any feature at all passes the interim data check.
HasAnyGeometry(features) == features # <<>>

\* "Point" in gpd.read_file(interim_data).geometry.type.unique()
HasPointGeometry(features) == \E i \in DOMAIN features : features[i].geometry = "Point"

\* Mutant: only the entries named *.jpeg are scored.
JpegEntries(names) == SelectSeq(names, LAMBDA n : Contains(n, JpegExt))

\* for i in os.listdir(image_directory): every entry, in listing order
LoopEntries(names) == names

\* filename.str[:-5]
image_id_of(filename) == SubSeq(filename, 1, Len(filename) - ExtensionLength)

\* The rows of scores whose image_id is id, in order.
Matches(scores, id) == SelectSeq(scores, LAMBDA d : d.image_id = id)

JoinRow(feature, d) ==
    [image_id |-> feature.image_id, geometry |-> feature.geometry,
     filename |-> d.filename, gvi_score |-> d.gvi_score]

RECURSIVE JoinRows(_, _)
JoinRows(feature, ds) ==
    IF ds = <<>> THEN <<>>
    ELSE <<JoinRow(feature, Head(ds))>> \o JoinRows(feature, Tail(ds))

\* Mutant: how="inner", the default of merge.
RECURSIVE merge_inner(_, _)
merge_inner(features, scores) ==
    IF features = <<>> THEN <<>>
    ELSE JoinRows(Head(features), Matches(scores, Head(features).image_id))
             \o merge_inner(Tail(features), scores)

\* gdf.merge(df, how="left", on="image_id"): the rows of gdf in order, each
\* once for every row of df with its image_id, or once with NaN when there is
\* none.
RECURSIVE merge_left(_, _)
merge_left(features, scores) ==
    IF features = <<>> THEN <<>>
    ELSE LET f == Head(features)
             m == Matches(scores, f.image_id)
         IN  (IF m = <<>>
              THEN <<JoinRow(f, [filename |-> NaN, gvi_score |-> NaN])>>
              ELSE JoinRows(f, m))
             \o merge_left(Tail(features), scores)

\* What os.listdir raises on a path that exists (os.path.exists is true of a
\* regular file and of a directory that may not be read) but cannot be listed.
ListErrors == {"NotADirectoryError", "PermissionError"}

\* What gpd.read_file raises on a file that is missing or is no dataset; the
\* class is that of the I/O engine in use.
ErrReadFile == "gpd.read_file: DataSourceError"

GviIdle ==
    /\ image = None /\ threshold = NotCalled
    /\ score = NotCalled /\ again = NotCalled

\* The file system main runs against, and main at its first statement.  The
\* directory and the interim file do not change during the run.
Init ==
    /\ GviIdle
    /\ dirExists \in BOOLEAN
    /\ listError \in (IF dirExists THEN {NoError} \cup ListErrors ELSE {NoError})
    /\ listing \in (IF dirExists /\ listError = NoError THEN Listings ELSE {<<>>})
    /\ files \in [Range(listing) -> Contents]
    /\ readError \in {NoError, ErrReadFile}
    /\ interim \in (IF readError = NoError THEN Interims ELSE {<<>>})
    /\ pc = "check_dir"
    /\ error = NoError
    /\ df = <<>>
    /\ gdf = <<>>
    /\ calls = <<>>
    /\ output = NoFile
    /\ writes = 0

\* The messages of the three configuration checks.
ErrNoDirectory == "ValueError: Image directory could not be found"
ErrNoJpeg == "Exception: Image directory doesn't contain expected contents (.jpeg files)"
ErrNoPoint == "Exception: Expected point data in interim data file but none found"

Raise(e) ==
    /\ pc' = "failed"
    /\ error' = e

\* if os.path.exists(image_directory): pass / else: raise ValueError
CheckImageDirectory ==
    /\ pc = "check_dir"
    /\ IF dirExists
       THEN pc' = "check_contents" /\ UNCHANGED error
       ELSE Raise(ErrNoDirectory)
    /\ UNCHANGED <<gviVars, envVars, df, gdf, calls, output, writes>>

CheckContents ==
    /\ pc = "check_contents"
    /\ IF listError # NoError
       THEN Raise(listError)
       ELSE IF HasJpegContents(listing)
       THEN pc' = "check_interim" /\ UNCHANGED error
       ELSE Raise(ErrNoJpeg)
    /\ UNCHANGED <<gviVars, envVars, df, gdf, calls, output, writes>>

CheckInterim ==
    /\ pc = "check_interim"
    /\ IF readError # NoError
       THEN Raise(readError)
       ELSE IF HasPointGeometry(interim)
       THEN pc' = "loop" /\ UNCHANGED error
       ELSE Raise(ErrNoPoint)
    /\ UNCHANGED <<gviVars, envVars, df, gdf, calls, output, writes>>

\* One iteration of the loop: score the next entry and append its row; an
\* exception of get_gvi_score leaves main.
ScoreImage ==
    /\ pc = "loop"
    /\ Len(calls) < Len(LoopEntries(listing))
    /\ LET i == LoopEntries(listing)[Len(calls) + 1]
       IN  /\ calls' = Append(calls, i)
           /\ \E gvi_score \in {get_gvi_score(files[i])} :
                IF Raised(gvi_score)
                THEN Raise(gvi_score.raised) /\ UNCHANGED df
                ELSE /\ df' = Append(df, [filename |-> i, gvi_score |-> gvi_score])
                     /\ UNCHANGED <<pc, error>>
    /\ UNCHANGED <<gviVars, envVars, gdf, output, writes>>

\* df["image_id"] = df["filename"].str[:-5]
AssignImageId ==
    /\ pc = "loop"
    /\ Len(calls) = Len(LoopEntries(listing))
    /\ df' = [k \in DOMAIN df |->
                [filename |-> df[k].filename, gvi_score |-> df[k].gvi_score,
                 image_id |-> image_id_of(df[k].filename)]]
    /\ pc' = "merge"
    /\ UNCHANGED <<gviVars, envVars, error, gdf, calls, output, writes>>

\* gdf = gpd.read_file(interim_data); gdf = gdf.merge(df, how="left", on="image_id")
Merge ==
    /\ pc = "merge"
    /\ gdf' = merge_left(interim, df)
    /\ pc' = "export"
    /\ UNCHANGED <<gviVars, envVars, error, df, calls, output, writes>>

\* gdf.to_file(output_file)
Export ==
    /\ pc = "export"
    /\ output' = [exists |-> TRUE, rows |-> gdf]
    /\ writes' = writes + 1
    /\ pc' = "done"
    /\ UNCHANGED <<gviVars, envVars, error, df, gdf, calls>>

Next ==
    \/ CheckImageDirectory
    \/ CheckContents
    \/ CheckInterim
    \/ ScoreImage
    \/ AssignImageId
    \/ Merge
    \/ Export

Spec == Init /\ [][Next]_vars

\* --------------------------------------------- claims about get_gvi_score
Returned(r) == r # NotCalled /\ ~Raised(r)
ExgOf(img) == ExG(cvtColor(img))
IsUniformColour(img) == img # None /\ \A i \in DOMAIN img.data : img.data[i] = img.data[1]

\* C1: for every valid image the score returned satisfies 0 <= score <= 100.
C1_ScoreBounds ==
    (image # None /\ Returned(score)) =>
        /\ score.den > 0
        /\ 0 <= score.num
        /\ score.num <= 100 * score.den

C1_Witness ==
    /\ image # None /\ Returned(score)
    /\ score.num > 0 /\ score.num < 100 * score.den

\* C2: the score is 100 * (number of pixels whose exg is strictly greater than
\* the threshold t) / (rows * columns), a pixel whose exg equals t is not
\* counted, and t is the Otsu threshold of the exg values of this image.
C2_ScoreFormula ==
    (image # None /\ score # NotCalled) =>
        /\ Returned(score)
        /\ score.den = image.shape[1] * image.shape[2]
        /\ score.num = 100 * Cardinality({i \in DOMAIN image.data :
                                2 * nbins * ExgOf(image)[i] > threshold.value})
        /\ \A i \in DOMAIN image.data :
              2 * nbins * ExgOf(image)[i] = threshold.value =>
                  score.num <= 100 * (Len(image.data) - 1)

\* A call returned on an image with a pixel whose exg equals t.
C2_Witness ==
    /\ image # None /\ Returned(score)
    /\ \E i \in DOMAIN image.data : 2 * nbins * ExgOf(image)[i] = threshold.value

\* C3: an image whose every pixel is pure green scores 100.
C3_AllGreenIs100 ==
    (image # None /\ (\A i \in DOMAIN image.data : image.data[i] = Green)
        /\ score # NotCalled) =>
        (Returned(score) /\ score.num = 100 * score.den)

\* C4: a uniform-colour image neither raises nor faults: it returns exactly 0,
\* and a second call on it gives the same outcome.
C4_UniformIsZero ==
    (IsUniformColour(image) /\ score # NotCalled) =>
        /\ Returned(score)
        /\ score.num = 0
        /\ again # NotCalled => again = score

C4_Witness ==
    /\ IsUniformColour(image) /\ Len(image.data) > 1
    /\ image.data[1] = Black
    /\ again # NotCalled

\* An image of pure green and pure red pixels, half of each.
EvenGreenRed(img) ==
    /\ img # None
    /\ \A i \in DOMAIN img.data : img.data[i] \in {Green, Red}
    /\ 2 * Cardinality({i \in DOMAIN img.data : img.data[i] = Green}) = Len(img.data)

\* C5: an image split evenly between pure green (exg = 2) and pure red
\* (exg = -1) scores within 1 of 50, the threshold lying between the two exg
\* values.
C5_HalfGreenHalfRed ==
    (EvenGreenRed(image) /\ score # NotCalled) =>
        /\ Returned(score)
        /\ 49 * score.den <= score.num /\ score.num <= 51 * score.den
        /\ -1 * MaxIntensity * 2 * nbins < threshold.value
        /\ threshold.value < 2 * MaxIntensity * 2 * nbins

C5_Witness ==
    /\ EvenGreenRed(image) /\ Len(image.data) = 4
    /\ Returned(score)

\* ------------------------------------------------------ claims about main
Terminated == pc \in {"done", "failed"}

Listable == dirExists /\ listError = NoError
SomeJpegName == \E i \in DOMAIN listing : Contains(listing[i], JpegExt)
SomePoint == \E i \in DOMAIN interim : interim[i].geometry = "Point"
ConfigurationValid == Listable /\ SomeJpegName /\ readError = NoError /\ SomePoint

\* The exception a run on an invalid configuration ends with: that of the
\* first check that fails, or the one os.listdir or gpd.read_file raises
\* inside a check.
ConfigFailure ==
    IF ~dirExists THEN ErrNoDirectory
    ELSE IF listError # NoError THEN listError
    ELSE IF ~SomeJpegName THEN ErrNoJpeg
    ELSE IF readError # NoError THEN readError
    ELSE ErrNoPoint

\* C6: every configuration failure is raised before the first call of
\* get_gvi_score and ends the run: an image is scored only when the directory
\* exists, holds .jpeg content and the interim data holds a Point; after a
\* failed check no image is scored, nothing is written and nothing more happens.
C6_ConfigChecksFirst ==
    /\ (calls # <<>> \/ df # <<>> \/ pc \in {"loop", "merge", "export", "done"})
          => ConfigurationValid
    /\ (Terminated /\ ~ConfigurationValid) =>
          /\ pc = "failed" /\ error = ConfigFailure
          /\ calls = <<>> /\ df = <<>> /\ output = NoFile /\ writes = 0
          /\ ~ENABLED Next

C6_Witness ==
    /\ pc = "failed" /\ error = ErrNoPoint
    /\ interim # <<>>
    /\ Len(listing) > 1

\* C7: a failure of get_gvi_score on one image is isolated: the run still
\* scores every other image of the directory and is not aborted.
C7_FailureIsolated ==
    (Terminated /\ ConfigurationValid) =>
        /\ pc = "done"
        /\ \A i \in DOMAIN listing :
              files[listing[i]] # None =>
                  \E k \in DOMAIN df : df[k].filename = listing[i]

\* The output rows of point f, and the scored images whose image_id is id.
PointRows(rows, f) ==
    {k \in DOMAIN rows : rows[k].image_id = f.image_id /\ rows[k].geometry = f.geometry}
Scored(id) == {k \in DOMAIN df : df[k].image_id = id}

\* C8: the join is a left join on image_id with the points on the left: every
\* point is in the output, without gvi_score when no scored image has its
\* image_id, otherwise once for each such image with that image's score; an
\* image whose image_id is that of no point adds no row.
C8_LeftJoin ==
    output.exists =>
        LET rows == output.rows
        IN  /\ \A p \in DOMAIN interim :
                 LET f == interim[p]
                     copies == Cardinality({q \in DOMAIN interim : interim[q] = f})
                 IN  IF Scored(f.image_id) = {}
                     THEN /\ Cardinality(PointRows(rows, f)) = copies
                          /\ \A k \in PointRows(rows, f) : rows[k].gvi_score = NaN
                     ELSE /\ Cardinality(PointRows(rows, f))
                                 = copies * Cardinality(Scored(f.image_id))
                          /\ \A k \in PointRows(rows, f) :
                                \E d \in Scored(f.image_id) :
                                    /\ rows[k].gvi_score = df[d].gvi_score
                                    /\ rows[k].filename = df[d].filename
                          /\ \A d \in Scored(f.image_id) :
                                \E k \in PointRows(rows, f) :
                                    /\ rows[k].gvi_score = df[d].gvi_score
                                    /\ rows[k].filename = df[d].filename
            /\ \A k \in DOMAIN rows :
                 \E p \in DOMAIN interim :
                    /\ interim[p].image_id = rows[k].image_id
                    /\ interim[p].geometry = rows[k].geometry

\* A matched point, an unmatched point and an unmatched image in one run.
C8_Witness ==
    /\ output.exists
    /\ \E p \in DOMAIN interim : Scored(interim[p].image_id) # {}
    /\ \E p \in DOMAIN interim : Scored(interim[p].image_id) = {}
    /\ \E d \in DOMAIN df : \A p \in DOMAIN interim : interim[p].image_id # df[d].image_id

\* The file name up to its last dot (the whole name when it has none).
RECURSIVE StripExtension(_)
StripExtension(name) ==
    IF name = <<>> THEN <<>>
    ELSE IF name[Len(name)] = "." THEN SubSeq(name, 1, Len(name) - 1)
    ELSE LET rest == StripExtension(SubSeq(name, 1, Len(name) - 1))
         IN  IF \E i \in DOMAIN name : name[i] = "." THEN rest ELSE name

\* C9: the image_id of every scored file is its file name with the extension
\* stripped, whatever the length of the extension.
C9_ImageIdStripsExtension ==
    \A k \in DOMAIN df :
        "image_id" \in DOMAIN df[k] =>
            df[k].image_id = StripExtension(df[k].filename)

\* C10: get_gvi_score is called once for each entry of the listing, in order,
\* whether or not its name contains ".jpeg"; the output file is written at most
\* once, after every entry has been scored and the join is done; a run that
\* raised has written nothing.
C10_ScoreAllThenWriteOnce ==
    /\ \A k \in DOMAIN calls : calls[k] = listing[k]
    /\ pc \in {"merge", "export", "done"} =>
          /\ calls = listing
          /\ Len(df) = Len(listing)
          /\ \A k \in DOMAIN df : df[k].filename = listing[k]
    /\ writes <= 1
    /\ output.exists <=> writes = 1
    /\ output.exists <=> pc = "done"
    /\ output.exists => output.rows = gdf
    /\ error # NoError <=> pc = "failed"
    /\ error # NoError => ~output.exists

C10_Witness ==
    /\ pc = "done" /\ writes = 1
    /\ Len(listing) > 1
    /\ \E i \in DOMAIN listing : ~Contains(listing[i], JpegExt)
====
